---------------------------- MODULE Spec2Model ----------------------------
(***************************************************************************)
(* Model of api/utils/azureUtils.js: construction of the Azure OpenAI      *)
(* endpoint URL, loading of credentials from process.env, and the          *)
(* sendChatMessage request/response wrapper around axios.post.             *)
(*                                                                         *)
(* JavaScript strings are sequences of one-character strings.  JavaScript  *)
(* values are records tagged by the field t.  A function that may throw    *)
(* and may write to the console is an operator returning a completion      *)
(* record [threw, value, error, log].                                      *)
(***************************************************************************)
EXTENDS Integers, Sequences, FiniteSets, TLC

VARIABLES
  env,      \* process.env: environment variable name -> Undefined or a string
  calls,    \* the activations of sendChatMessage, one per slot
  input,    \* the argument of a direct call of an exported pure function
  output    \* the completion of that call

vars == << env, calls, input, output >>

---------------------------------------------------------------------------
(* Bounds *)

\* Longest model name drawn for sanitizeModelName.
MaxLen == 3

\* Number of invocations of sendChatMessage that may overlap.
MaxInFlight == 2

---------------------------------------------------------------------------
(* JavaScript values *)

Undefined == [t |-> "undefined"]

Null == [t |-> "null"]

Str(s) == [t |-> "string", chars |-> s]

Num(n) == [t |-> "number", n |-> n]

\* !v for the values that occur: undefined, null, and strings.
Falsy(v) == v.t \in {"undefined", "null"} \/ (v.t = "string" /\ v.chars = << >>)

---------------------------------------------------------------------------
(* String literals of the source *)

HttpsPrefix ==
  << "h", "t", "t", "p", "s", ":", "/", "/" >>

AzureDeploymentsPath ==
  << ".", "o", "p", "e", "n", "a", "i", ".", "a", "z", "u", "r", "e", ".",
     "c", "o", "m", "/", "o", "p", "e", "n", "a", "i", "/", "d", "e", "p",
     "l", "o", "y", "m", "e", "n", "t", "s", "/" >>

ChatCompletionsQuery ==
  << "/", "c", "h", "a", "t", "/", "c", "o", "m", "p", "l", "e", "t", "i",
     "o", "n", "s", "?", "a", "p", "i", "-", "v", "e", "r", "s", "i", "o",
     "n", "=" >>

BearerPrefix ==
  << "B", "e", "a", "r", "e", "r", " " >>

ApplicationJson ==
  << "a", "p", "p", "l", "i", "c", "a", "t", "i", "o", "n", "/", "j", "s",
     "o", "n" >>

UndefinedText ==
  << "u", "n", "d", "e", "f", "i", "n", "e", "d" >>

NullText ==
  << "n", "u", "l", "l" >>

EndpointErrorMessage ==
  << "A", "z", "u", "r", "e", " ", "O", "p", "e", "n", "A", "I", " ", "A",
     "P", "I", " ", "i", "n", "s", "t", "a", "n", "c", "e", " ", "n", "a",
     "m", "e", " ", "a", "n", "d", " ", "d", "e", "p", "l", "o", "y", "m",
     "e", "n", "t", " ", "n", "a", "m", "e", " ", "m", "u", "s", "t", " ",
     "b", "e", " ", "p", "r", "o", "v", "i", "d", "e", "d", "." >>

GeneratedEndpointLabel ==
  << "G", "e", "n", "e", "r", "a", "t", "e", "d", " ", "E", "n", "d", "p",
     "o", "i", "n", "t", ":", " " >>

MissingEnvLabel ==
  << "O", "n", "e", " ", "o", "r", " ", "m", "o", "r", "e", " ", "e", "n",
     "v", "i", "r", "o", "n", "m", "e", "n", "t", " ", "v", "a", "r", "i",
     "a", "b", "l", "e", "s", " ", "a", "r", "e", " ", "m", "i", "s", "s",
     "i", "n", "g", " ", "o", "r", " ", "i", "n", "v", "a", "l", "i", "d",
     ":" >>

InvalidEnvMessage ==
  << "I", "n", "v", "a", "l", "i", "d", " ", "e", "n", "v", "i", "r", "o",
     "n", "m", "e", "n", "t", " ", "c", "o", "n", "f", "i", "g", "u", "r",
     "a", "t", "i", "o", "n", "." >>

ResponseLabel ==
  << "R", "e", "s", "p", "o", "n", "s", "e", ":" >>

SendErrorLabel ==
  << "E", "r", "r", "o", "r", " ", "s", "e", "n", "d", "i", "n", "g", " ",
     "c", "h", "a", "t", " ", "m", "e", "s", "s", "a", "g", "e", ":" >>

ErrorLabel ==
  << "E", "r", "r", "o", "r" >>

StatusErrorPrefix ==
  << "R", "e", "q", "u", "e", "s", "t", " ", "f", "a", "i", "l", "e", "d",
     " ", "w", "i", "t", "h", " ", "s", "t", "a", "t", "u", "s", " ", "c",
     "o", "d", "e", " " >>

---------------------------------------------------------------------------
(* Completions, errors and console lines *)

\* new Error(message): a plain Error has neither response nor request.
NewError(message) ==
  [t |-> "Error", message |-> Str(message),
   response |-> Undefined, request |-> Undefined]

Return(v, log) == [threw |-> FALSE, value |-> v, error |-> Undefined, log |-> log]

Throw(e, log) == [threw |-> TRUE, value |-> Undefined, error |-> e, log |-> log]

ConsoleLog(args) == [ev |-> "console.log", args |-> args]

ConsoleError(args) == [ev |-> "console.error", args |-> args]

\* `${v}` in a template literal.
TemplateText(v) ==
  IF v.t = "string" THEN v.chars
  ELSE IF v.t = "null" THEN NullText
  ELSE UndefinedText

---------------------------------------------------------------------------
(* genAzureEndpoint, sanitizeModelName, genAzureChatCompletion *)

\* The guard with && in place of ||.
EndpointNamesMissingBoth(instanceName, deploymentName) ==
  Falsy(instanceName) /\ Falsy(deploymentName)

EndpointNamesMissing(instanceName, deploymentName) ==
  Falsy(instanceName) \/ Falsy(deploymentName)

\* The deployment name passed through sanitizeModelName-like stripping.
EndpointURLSanitized(instanceName, deploymentName) ==
  HttpsPrefix \o TemplateText(instanceName) \o AzureDeploymentsPath
    \o SelectSeq(TemplateText(deploymentName), LAMBDA c : c # ".")

EndpointURL(instanceName, deploymentName) ==
  HttpsPrefix \o TemplateText(instanceName) \o AzureDeploymentsPath
    \o TemplateText(deploymentName)

genAzureEndpoint(params) ==
  IF EndpointNamesMissing(params.azureOpenAIApiInstanceName,
                          params.azureOpenAIApiDeploymentName)
  THEN Throw(NewError(EndpointErrorMessage), << >>)
  ELSE Return(Str(EndpointURL(params.azureOpenAIApiInstanceName,
                              params.azureOpenAIApiDeploymentName)), << >>)

\* String.prototype.replace without the g flag: only the first match goes.
RECURSIVE ReplaceFirstPeriod(_)
ReplaceFirstPeriod(s) ==
  IF s = << >> THEN << >>
  ELSE IF Head(s) = "." THEN Tail(s)
  ELSE << Head(s) >> \o ReplaceFirstPeriod(Tail(s))

\* modelName.replace(/\./g, ''): left to right, every match replaced by ''.
RECURSIVE ReplaceAllPeriods(_)
ReplaceAllPeriods(s) ==
  IF s = << >> THEN << >>
  ELSE IF Head(s) = "." THEN ReplaceAllPeriods(Tail(s))
  ELSE << Head(s) >> \o ReplaceAllPeriods(Tail(s))

\* The replace without its g flag.
sanitizeModelNameFirstOnly(modelName) == Str(ReplaceFirstPeriod(modelName.chars))

sanitizeModelName(modelName) == Str(ReplaceAllPeriods(modelName.chars))

genAzureChatCompletion(credentials) ==
  LET base == genAzureEndpoint(
                [azureOpenAIApiInstanceName |-> credentials.azureOpenAIApiInstanceName,
                 azureOpenAIApiDeploymentName |-> credentials.azureOpenAIApiDeploymentName])
  IN  IF base.threw THEN base
      ELSE LET endpoint == Str(base.value.chars \o ChatCompletionsQuery
                                 \o TemplateText(credentials.azureOpenAIApiVersion))
           IN  Return(endpoint,
                      << ConsoleLog(<< Str(GeneratedEndpointLabel \o endpoint.chars) >>) >>)

---------------------------------------------------------------------------
(* Values drawn for names, keys, payloads and response bodies *)

Foo == << "f", "o", "o" >>

Bar == << "b", "a", "r" >>

Gpt4Dot == << "g", ".", "4" >>

ApiVersionText == << "2", "3", "-", "0", "5" >>

KeyOne == << "K", "1" >>

KeyTwo == << "K", "2" >>

MessageHello == [t |-> "object", messages |-> << "hello" >>]

MessageBye == [t |-> "object", messages |-> << "bye" >>]

BodyChoices == [t |-> "object", choices |-> << "hi" >>]

BodyError == [t |-> "object", error |-> "denied"]

ResponseHeaders == [t |-> "object", contentType |-> Str(ApplicationJson)]

ConnRefused == << "E", "C", "O", "N", "N", "R", "E", "F", "U", "S", "E", "D" >>

InvalidUrl == << "I", "n", "v", "a", "l", "i", "d", " ", "U", "R", "L" >>

---------------------------------------------------------------------------
(* process.env and getAzureCredentials *)

EnvVars ==
  { "AZURE_API_KEY", "AZURE_OPENAI_API_INSTANCE_NAME",
    "AZURE_OPENAI_API_DEPLOYMENT_NAME", "AZURE_OPENAI_API_VERSION" }

Slots == 1..MaxInFlight

NoOutput == [fn |-> "none"]

NoWire == [kind |-> "none"]

NoEnv == [v \in EnvVars |-> Undefined]

\* An activation record of sendChatMessage before its first invocation.
\* envAtCall records process.env as it was when the invocation started.
IdleCall ==
  [pc |-> "idle", message |-> Undefined, envAtCall |-> NoEnv,
   credentials |-> Undefined, endpoint |-> Undefined,
   trace |-> << >>, wire |-> NoWire]

\* The check without its last operand.
CredentialsIncompleteNoVersion(credentials) ==
  \/ Falsy(credentials.azureOpenAIApiKey)
  \/ Falsy(credentials.azureOpenAIApiInstanceName)
  \/ Falsy(credentials.azureOpenAIApiDeploymentName)

CredentialsIncomplete(credentials) ==
  \/ Falsy(credentials.azureOpenAIApiKey)
  \/ Falsy(credentials.azureOpenAIApiInstanceName)
  \/ Falsy(credentials.azureOpenAIApiDeploymentName)
  \/ Falsy(credentials.azureOpenAIApiVersion)

CredentialsOf(e) ==
  [t |-> "object",
   azureOpenAIApiKey |-> e["AZURE_API_KEY"],
   azureOpenAIApiInstanceName |-> e["AZURE_OPENAI_API_INSTANCE_NAME"],
   azureOpenAIApiDeploymentName |-> e["AZURE_OPENAI_API_DEPLOYMENT_NAME"],
   azureOpenAIApiVersion |-> e["AZURE_OPENAI_API_VERSION"]]

\* Credentials memoised at module level: once an invocation has loaded a
\* complete set, later invocations reuse it instead of reading process.env.
ReadCredentialsCached ==
  LET loaded == { j \in Slots : calls[j].credentials # Undefined }
  IN  IF loaded # {} THEN calls[CHOOSE j \in loaded : TRUE].credentials
      ELSE CredentialsOf(env)

\* The object literal built from process.env at the time of the call.
ReadCredentials == CredentialsOf(env)

getAzureCredentials ==
  LET credentials == ReadCredentials
  IN  IF CredentialsIncomplete(credentials)
      THEN Throw(NewError(InvalidEnvMessage),
                 << ConsoleError(<< Str(MissingEnvLabel), credentials >>) >>)
      ELSE Return(credentials, << >>)

---------------------------------------------------------------------------
(* axios.post and sendChatMessage *)

AxiosPost(url, data, config) ==
  [ev |-> "post", url |-> url, data |-> data, config |-> config]

Resolve(v) == [ev |-> "resolve", value |-> v]

Reject(e) == [ev |-> "reject", error |-> e]

DigitChars == << "0", "1", "2", "3", "4", "5", "6", "7", "8", "9" >>

StatusText(n) ==
  << DigitChars[(n \div 100) + 1], DigitChars[((n \div 10) % 10) + 1],
     DigitChars[(n % 10) + 1] >>

ClientRequest == [t |-> "request"]

\* What the promise returned by axios.post settles to, given what happened
\* on the wire: fulfilled with the response for a 2xx status (the default
\* validateStatus), rejected with an error carrying the response otherwise,
\* rejected with an error without response when none was received.
AxiosSettle(o) ==
  IF o.kind = "response"
  THEN LET response == [t |-> "response", status |-> Num(o.status),
                        data |-> o.data, headers |-> o.headers]
       IN  IF o.status >= 200 /\ o.status < 300
           THEN Return(response, << >>)
           ELSE Throw([t |-> "Error",
                       message |-> Str(StatusErrorPrefix \o StatusText(o.status)),
                       response |-> response, request |-> ClientRequest], << >>)
  ELSE IF o.kind = "noresponse"
  THEN Throw([t |-> "Error", message |-> Str(o.message),
              response |-> Undefined, request |-> ClientRequest], << >>)
  ELSE Throw([t |-> "Error", message |-> Str(o.message),
              response |-> Undefined, request |-> Undefined], << >>)

RequestConfig(credentials) ==
  [headers |->
     [ContentType |-> Str(ApplicationJson),
      Authorization |-> Str(BearerPrefix \o TemplateText(credentials.azureOpenAIApiKey))]]

\* The synchronous part of sendChatMessage, up to the await: the locals it
\* sets and the events it causes, in order.
SendPrologue(message) ==
  LET c == getAzureCredentials
  IN  IF c.threw
      THEN [pc |-> "rejected", credentials |-> Undefined, endpoint |-> Undefined,
            trace |-> c.log \o << Reject(c.error) >>]
      ELSE LET e == genAzureChatCompletion(c.value)
           IN  IF e.threw
               THEN [pc |-> "rejected", credentials |-> c.value,
                     endpoint |-> Undefined,
                     trace |-> c.log \o e.log \o << Reject(e.error) >>]
               ELSE [pc |-> "awaiting", credentials |-> c.value,
                     endpoint |-> e.value,
                     trace |-> c.log \o e.log
                                 \o << AxiosPost(e.value, message, RequestConfig(c.value)) >>]

\* return response instead of response.data.
ReturnedResponse(response) == response

ReturnedValue(response) == response.data

OnFulfilled(response) ==
  << ConsoleLog(<< Str(ResponseLabel), response.data >>),
     Resolve(ReturnedValue(response)) >>

\* throw new Error(error.message) instead of throw error.
RethrownWrapped(error) == NewError(error.message.chars)

Rethrown(error) == error

CatchLog(error) ==
  << ConsoleError(<< Str(SendErrorLabel),
                     IF error.response # Undefined THEN error.response.data
                     ELSE error.message >>) >>
  \o (IF error.response # Undefined
      THEN << ConsoleError(<< error.response.data >>),
              ConsoleError(<< error.response.status >>),
              ConsoleError(<< error.response.headers >>) >>
      ELSE IF error.request # Undefined
      THEN << ConsoleError(<< error.request >>) >>
      ELSE << ConsoleError(<< Str(ErrorLabel), error.message >>) >>)

\* A catch block that logs and falls through: the function returns undefined.
OnRejectedSwallow(error) == CatchLog(error) \o << Resolve(Undefined) >>

\* A catch block that posts once more before giving up.
OnRejectedRetry(error) ==
  CatchLog(error)
    \o << AxiosPost(Undefined, Undefined, Undefined), Reject(Rethrown(error)) >>

OnRejected(error) == CatchLog(error) \o << Reject(Rethrown(error)) >>

\* The continuation of sendChatMessage after the await.
SendEpilogue(settled) ==
  IF settled.threw THEN OnRejected(settled.error) ELSE OnFulfilled(settled.value)

Last(s) == s[Len(s)]

\* sendChatMessage(message) is called; it runs to its first await or fails.
\* A slot whose invocation has ended is taken again by a new invocation: the
\* module keeps nothing of an invocation that has ended.
Invoke(i, message) ==
  /\ calls[i].pc # "awaiting"
  /\ LET p == SendPrologue(message)
     IN  calls' = [calls EXCEPT ![i] =
                     [pc |-> p.pc, message |-> message, envAtCall |-> env,
                      credentials |-> p.credentials, endpoint |-> p.endpoint,
                      trace |-> p.trace, wire |-> NoWire]]
  /\ UNCHANGED << env, input, output >>

\* The request of invocation i ends on the wire with outcome o; the promise
\* of axios.post settles and sendChatMessage runs to its end.
Settle(i, o) ==
  /\ calls[i].pc = "awaiting"
  /\ LET evs == SendEpilogue(AxiosSettle(o))
     IN  calls' = [calls EXCEPT
                     ![i].pc = IF Last(evs).ev = "resolve" THEN "resolved"
                               ELSE "rejected",
                     ![i].trace = @ \o evs,
                     ![i].wire = o]
  /\ UNCHANGED << env, input, output >>

\* The host process sets or deletes an environment variable.
SetEnv(name, value) ==
  /\ env[name] # value
  /\ env' = [env EXCEPT ![name] = value]
  /\ UNCHANGED << calls, input, output >>

---------------------------------------------------------------------------
(* Invocations one after another, over the full range of environments *)

EnvValues ==
  [v \in EnvVars |->
     IF v = "AZURE_API_KEY" THEN { Undefined, Str(<< >>), Str(KeyOne), Str(KeyTwo) }
     ELSE IF v = "AZURE_OPENAI_API_INSTANCE_NAME"
       THEN { Undefined, Str(<< >>), Str(Foo), Str(Bar) }
     ELSE IF v = "AZURE_OPENAI_API_DEPLOYMENT_NAME"
       THEN { Undefined, Str(<< >>), Str(Gpt4Dot) }
     ELSE { Undefined, Str(<< >>), Str(ApiVersionText) }]

Environments == { e \in [EnvVars -> UNION { EnvValues[v] : v \in EnvVars }] :
                    \A v \in EnvVars : e[v] \in EnvValues[v] }

Messages == { MessageHello, MessageBye }

WireOutcomes ==
  { [kind |-> "response", status |-> s, data |-> d, headers |-> ResponseHeaders] :
      s \in {200, 204, 401, 500}, d \in { BodyChoices, BodyError, Str(<< >>) } }
  \cup { [kind |-> "noresponse", message |-> ConnRefused],
         [kind |-> "setup", message |-> InvalidUrl] }

NoInput == [fn |-> "none"]

Init ==
  /\ env \in Environments
  /\ calls = [i \in Slots |-> IdleCall]
  /\ input = NoInput
  /\ output = NoOutput

\* One invocation at a time, always in slot 1.
Next ==
  \/ \E name \in EnvVars : \E value \in EnvValues[name] : SetEnv(name, value)
  \/ \E message \in Messages : Invoke(1, message)
  \/ \E o \in WireOutcomes : Settle(1, o)

Spec == Init /\ [][Next]_vars

---------------------------------------------------------------------------
(* Overlapping invocations *)

ConcEnvValues ==
  [v \in EnvVars |->
     IF v = "AZURE_API_KEY" THEN { Str(KeyOne), Str(KeyTwo) }
     ELSE IF v = "AZURE_OPENAI_API_INSTANCE_NAME" THEN { Str(Foo), Str(Bar) }
     ELSE IF v = "AZURE_OPENAI_API_DEPLOYMENT_NAME" THEN { Str(Gpt4Dot) }
     ELSE { Undefined, Str(ApiVersionText) }]

ConcEnvironments == { e \in Environments : \A v \in EnvVars : e[v] \in ConcEnvValues[v] }

ConcWireOutcomes ==
  { [kind |-> "response", status |-> 200, data |-> BodyChoices,
     headers |-> ResponseHeaders],
    [kind |-> "response", status |-> 401, data |-> BodyError,
     headers |-> ResponseHeaders],
    [kind |-> "noresponse", message |-> ConnRefused],
    [kind |-> "setup", message |-> InvalidUrl] }

InitConc ==
  /\ env \in ConcEnvironments
  /\ calls = [i \in Slots |-> IdleCall]
  /\ input = NoInput
  /\ output = NoOutput

\* Up to MaxInFlight invocations at once, over fewer environments, one
\* message and four wire outcomes.
NextConc ==
  \/ \E name \in EnvVars : \E value \in ConcEnvValues[name] : SetEnv(name, value)
  \/ \E i \in Slots : Invoke(i, MessageHello)
  \/ \E i \in Slots : \E o \in ConcWireOutcomes : Settle(i, o)

SpecConc == InitConc /\ [][NextConc]_vars

---------------------------------------------------------------------------
(* Direct calls of the exported pure functions *)

Alphabet == {"g", "3", "."}

BoundedStrings == UNION { [1..k -> Alphabet] : k \in 0..MaxLen }

Gpt35Turbo == << "g", "p", "t", "-", "3", ".", "5", ".", "t", "u", "r", "b", "o" >>

ModelNames == BoundedStrings \cup { Gpt35Turbo }

InstanceArgs == { Undefined, Null, Str(<< >>), Str(Foo) }

DeploymentArgs == { Undefined, Null, Str(<< >>), Str(Bar), Str(Gpt4Dot) }

VersionArgs == { Undefined, Str(<< >>), Str(ApiVersionText) }

PureInputs ==
  { [fn |-> "sanitizeModelName", modelName |-> Str(s)] : s \in ModelNames }
  \cup
  { [fn |-> "genAzureEndpoint",
     params |-> [azureOpenAIApiInstanceName |-> i,
                 azureOpenAIApiDeploymentName |-> d]] :
      i \in InstanceArgs, d \in DeploymentArgs }
  \cup
  { [fn |-> "genAzureChatCompletion",
     credentials |-> [t |-> "object",
                      azureOpenAIApiKey |-> Str(KeyOne),
                      azureOpenAIApiInstanceName |-> i,
                      azureOpenAIApiDeploymentName |-> d,
                      azureOpenAIApiVersion |-> v]] :
      i \in InstanceArgs, d \in DeploymentArgs, v \in VersionArgs }

CallSanitizeModelName ==
  /\ input.fn = "sanitizeModelName"
  /\ output = NoOutput
  /\ output' = [fn |-> input.fn, r |-> Return(sanitizeModelName(input.modelName), << >>)]
  /\ UNCHANGED << env, calls, input >>

CallGenAzureEndpoint ==
  /\ input.fn = "genAzureEndpoint"
  /\ output = NoOutput
  /\ output' = [fn |-> input.fn, r |-> genAzureEndpoint(input.params)]
  /\ UNCHANGED << env, calls, input >>

CallGenAzureChatCompletion ==
  /\ input.fn = "genAzureChatCompletion"
  /\ output = NoOutput
  /\ output' = [fn |-> input.fn, r |-> genAzureChatCompletion(input.credentials)]
  /\ UNCHANGED << env, calls, input >>

InitPure ==
  /\ env = NoEnv
  /\ calls = [i \in Slots |-> IdleCall]
  /\ input \in PureInputs
  /\ output = NoOutput

NextPure ==
  \/ CallSanitizeModelName
  \/ CallGenAzureEndpoint
  \/ CallGenAzureChatCompletion

SpecPure == InitPure /\ [][NextPure]_vars

---------------------------------------------------------------------------
(* Vocabulary of the properties *)

PostsOf(tr) == SelectSeq(tr, LAMBDA e : e.ev = "post")

TerminalsOf(tr) == SelectSeq(tr, LAMBDA e : e.ev \in {"resolve", "reject"})

\* A variable is missing (unset) or empty.
MissingOrEmpty(v) == v = Undefined \/ v = Str(<< >>)

IncompleteEnv(e) == \E v \in EnvVars : MissingOrEmpty(e[v])

Started(i) == calls[i].pc # "idle"

Settled(i) == calls[i].pc \in {"resolved", "rejected"}

Is2xx(w) == w.kind = "response" /\ w.status \in 200..299

IsNon2xx(w) == w.kind = "response" /\ w.status \notin 200..299

\* The URL the specification gives for the values of an environment.
DocumentedURL(e) ==
  Str(HttpsPrefix \o e["AZURE_OPENAI_API_INSTANCE_NAME"].chars
        \o AzureDeploymentsPath \o e["AZURE_OPENAI_API_DEPLOYMENT_NAME"].chars
        \o ChatCompletionsQuery \o e["AZURE_OPENAI_API_VERSION"].chars)

DocumentedAuthorization(e) == Str(BearerPrefix \o e["AZURE_API_KEY"].chars)

\* s occurs in t as a contiguous run of characters.
OccursIn(s, t) ==
  \E k \in 0..(Len(t) - Len(s)) : SubSeq(t, k + 1, k + Len(s)) = s

\* A logged or thrown value shows the secret: a string that has it as a
\* substring, or an object one of whose string fields has.
Shows(v, secret) ==
  IF v.t = "string" THEN OccursIn(secret, v.chars)
  ELSE IF v.t \in {"object", "Error"}
  THEN \E f \in DOMAIN v \ {"t"} :
         /\ "t" \in DOMAIN v[f]
         /\ v[f].t = "string"
         /\ OccursIn(secret, v[f].chars)
  ELSE FALSE

---------------------------------------------------------------------------
(* Properties of sendChatMessage *)

\* C1: an invocation made while any of the four environment variables is
\* missing or empty is rejected with the configuration error and has issued
\* no POST.
C1_IncompleteEnvFailsBeforePost ==
  \A i \in Slots :
    (Started(i) /\ IncompleteEnv(calls[i].envAtCall)) =>
      /\ calls[i].pc = "rejected"
      /\ Last(calls[i].trace) = Reject(NewError(InvalidEnvMessage))
      /\ PostsOf(calls[i].trace) = << >>

\* An invocation whose only defect is an empty AZURE_OPENAI_API_VERSION has
\* been rejected.
C1_Witness ==
  /\ calls[1].pc = "rejected"
  /\ calls[1].envAtCall["AZURE_OPENAI_API_VERSION"] = Str(<< >>)
  /\ \A v \in EnvVars \ {"AZURE_OPENAI_API_VERSION"} :
       ~MissingOrEmpty(calls[1].envAtCall[v])

\* C2: an invocation issues at most one POST, exactly one when the
\* credentials it found were complete; once it has ended it has ended exactly
\* once, as its last event, and while it waits it has not ended.
C2_OnePostOneEnd ==
  \A i \in Slots :
    LET tr == calls[i].trace
    IN  /\ Len(PostsOf(tr)) <= 1
        /\ (Started(i) /\ ~IncompleteEnv(calls[i].envAtCall)) => Len(PostsOf(tr)) = 1
        /\ Settled(i) =>
             /\ Len(TerminalsOf(tr)) = 1
             /\ Last(tr).ev \in {"resolve", "reject"}
        /\ calls[i].pc = "awaiting" => TerminalsOf(tr) = << >>

\* One invocation has ended after its POST failed while another still waits.
C2_Witness ==
  \E i, j \in Slots :
    /\ calls[i].pc = "rejected"
    /\ calls[i].wire.kind \in {"response", "noresponse"}
    /\ Len(PostsOf(calls[i].trace)) = 1
    /\ calls[j].pc = "awaiting"

\* C3: when the POST got a 2xx response the invocation resolves with the
\* decoded body of that response, unchanged.
C3_SuccessReturnsBody ==
  \A i \in Slots :
    Is2xx(calls[i].wire) =>
      /\ calls[i].pc = "resolved"
      /\ Last(calls[i].trace) = Resolve(calls[i].wire.data)

\* A 204 with an empty body has been returned as the empty string.
C3_Witness ==
  /\ calls[1].pc = "resolved"
  /\ calls[1].wire.kind = "response"
  /\ calls[1].wire.status = 204
  /\ calls[1].wire.data = Str(<< >>)

\* The invocation failed: its configuration was incomplete, or its request
\* ended without a 2xx response.
Failed(i) ==
  /\ Started(i)
  /\ \/ IncompleteEnv(calls[i].envAtCall)
     \/ IsNon2xx(calls[i].wire)
     \/ calls[i].wire.kind \in {"noresponse", "setup"}

\* C4: on every failure path the invocation is rejected, never resolved: its
\* last event is the rejection, with the error of the failure itself, and a
\* console.error line precedes it.
C4_FailuresLoggedThenRaised ==
  \A i \in Slots :
    Failed(i) =>
      LET tr == calls[i].trace
      IN  /\ calls[i].pc = "rejected"
          /\ \A k \in 1..Len(tr) : tr[k].ev # "resolve"
          /\ Last(tr).ev = "reject"
          /\ Last(tr).error =
               IF IncompleteEnv(calls[i].envAtCall) THEN NewError(InvalidEnvMessage)
               ELSE AxiosSettle(calls[i].wire).error
          /\ \E k \in 1..(Len(tr) - 1) : tr[k].ev = "console.error"

\* One invocation failed on its configuration and another on a request that
\* got no response.
C4_Witness ==
  \E i, j \in Slots :
    /\ calls[i].pc = "rejected"
    /\ IncompleteEnv(calls[i].envAtCall)
    /\ calls[j].pc = "rejected"
    /\ calls[j].wire.kind = "noresponse"

\* C5: a rejection after a non-2xx response carries that status and body; a
\* rejection after no response carries the transport's description and no
\* response.
C5_ErrorKeepsDistinction ==
  \A i \in Slots :
    calls[i].pc = "rejected" =>
      LET err == Last(calls[i].trace).error
          w == calls[i].wire
      IN  /\ w.kind = "response" =>
               /\ err.response # Undefined
               /\ err.response.status = Num(w.status)
               /\ err.response.data = w.data
          /\ w.kind = "noresponse" =>
               /\ err.response = Undefined
               /\ err.message = Str(w.message)

\* A 401 with an error body has been raised to the caller.
C5_Witness ==
  /\ calls[1].pc = "rejected"
  /\ calls[1].wire.kind = "response"
  /\ calls[1].wire.status = 401
  /\ calls[1].wire.data = BodyError

\* C6: with complete credentials the one POST goes to the documented URL
\* built from the environment of that call, with Content-Type
\* application/json and Authorization Bearer <key of that call>, and its
\* body is the caller's message.
C6_PostIsAsDocumented ==
  \A i \in Slots :
    (Started(i) /\ ~IncompleteEnv(calls[i].envAtCall)) =>
      LET posts == PostsOf(calls[i].trace)
      IN  /\ Len(posts) = 1
          /\ posts[1].url = DocumentedURL(calls[i].envAtCall)
          /\ posts[1].config.headers.ContentType = Str(ApplicationJson)
          /\ posts[1].config.headers.Authorization
               = DocumentedAuthorization(calls[i].envAtCall)
          /\ posts[1].data = calls[i].message

\* A POST for a deployment name with a period in it is in flight.
C6_Witness ==
  /\ calls[1].pc = "awaiting"
  /\ calls[1].envAtCall["AZURE_OPENAI_API_DEPLOYMENT_NAME"] = Str(Gpt4Dot)
  /\ calls[1].envAtCall["AZURE_OPENAI_API_INSTANCE_NAME"] = Str(Bar)
  /\ calls[1].message = MessageBye

\* C7: whatever the interleaving and whatever happens to the environment
\* meanwhile, each invocation's POST has the URL and key of the environment
\* as it was when that invocation started, and each ended invocation ended
\* with the outcome of its own request.
C7_InvocationsIndependent ==
  \A i \in Slots :
    LET posts == PostsOf(calls[i].trace)
        w == calls[i].wire
    IN  /\ \A k \in 1..Len(posts) :
             /\ posts[k].url = DocumentedURL(calls[i].envAtCall)
             /\ posts[k].config.headers.Authorization
                  = DocumentedAuthorization(calls[i].envAtCall)
        /\ (Settled(i) /\ w.kind # "none") =>
             Last(calls[i].trace) =
               IF Is2xx(w) THEN Resolve(w.data)
               ELSE Reject(AxiosSettle(w).error)

\* Two invocations that started under different keys and instances have
\* ended differently, and the environment has changed since.
C7_Witness ==
  \E i, j \in Slots :
    /\ calls[i].pc = "resolved"
    /\ calls[j].pc = "rejected"
    /\ calls[j].wire.kind = "response"
    /\ calls[i].envAtCall["AZURE_API_KEY"] # calls[j].envAtCall["AZURE_API_KEY"]
    /\ calls[i].envAtCall["AZURE_OPENAI_API_INSTANCE_NAME"]
         # calls[j].envAtCall["AZURE_OPENAI_API_INSTANCE_NAME"]
    /\ env["AZURE_OPENAI_API_VERSION"] = Undefined

\* C9: when the configuration is incomplete and AZURE_API_KEY is set, neither
\* the error raised nor any console line shows the value of the key.
C9_KeyNotShownOnFailure ==
  \A i \in Slots :
    (/\ calls[i].pc = "rejected"
     /\ IncompleteEnv(calls[i].envAtCall)
     /\ ~MissingOrEmpty(calls[i].envAtCall["AZURE_API_KEY"])) =>
      LET tr == calls[i].trace
          secret == calls[i].envAtCall["AZURE_API_KEY"].chars
      IN  /\ ~Shows(Last(tr).error, secret)
          /\ \A k \in 1..(Len(tr) - 1) :
               \A a \in 1..Len(tr[k].args) : ~Shows(tr[k].args[a], secret)

---------------------------------------------------------------------------
(* Properties of the pure functions *)

Absent(v) == v \in { Undefined, Null, Str(<< >>) }

\* C8: genAzureEndpoint returns the documented URL when both names are
\* non-empty and throws, returning nothing, exactly when one of them is empty
\* or absent; genAzureChatCompletion then throws the same error and writes no
\* 'Generated Endpoint' line.
C8_EndpointOrConfigurationError ==
  /\ output.fn = "genAzureEndpoint" =>
       LET i == input.params.azureOpenAIApiInstanceName
           d == input.params.azureOpenAIApiDeploymentName
       IN  /\ output.r.threw <=> (Absent(i) \/ Absent(d))
           /\ output.r.threw =>
                /\ output.r.value = Undefined
                /\ output.r.error = NewError(EndpointErrorMessage)
           /\ ~output.r.threw =>
                output.r.value
                  = Str(HttpsPrefix \o i.chars \o AzureDeploymentsPath \o d.chars)
  /\ output.fn = "genAzureChatCompletion" =>
       LET i == input.credentials.azureOpenAIApiInstanceName
           d == input.credentials.azureOpenAIApiDeploymentName
       IN  /\ output.r.threw <=> (Absent(i) \/ Absent(d))
           /\ output.r.threw =>
                /\ output.r.value = Undefined
                /\ output.r.error = NewError(EndpointErrorMessage)
                /\ output.r.log = << >>

\* genAzureChatCompletion has thrown for an instance name with an empty
\* deployment name.
C8_Witness ==
  /\ output.fn = "genAzureChatCompletion"
  /\ input.credentials.azureOpenAIApiInstanceName = Str(Foo)
  /\ input.credentials.azureOpenAIApiDeploymentName = Str(<< >>)
  /\ output.r.threw

IsPeriod(c) == c = "."

NotPeriod(c) == c # "."

\* C10: sanitizeModelName(name) has no period, is shorter than name by the
\* number of periods in name, keeps the other characters in order, and so is
\* idempotent and the identity on names without periods.
C10_SanitizeRemovesExactlyPeriods ==
  output.fn = "sanitizeModelName" =>
    LET name == input.modelName.chars
        result == output.r.value.chars
    IN  /\ \A k \in 1..Len(result) : result[k] # "."
        /\ Len(result) = Len(name) - Len(SelectSeq(name, IsPeriod))
        /\ result = SelectSeq(name, NotPeriod)
        /\ sanitizeModelName(output.r.value) = output.r.value
        /\ (\A k \in 1..Len(name) : name[k] # ".") => result = name

\* "gpt-3.5.turbo" has become "gpt-35turbo".
C10_Witness ==
  /\ output.fn = "sanitizeModelName"
  /\ input.modelName = Str(Gpt35Turbo)
  /\ output.r.value = Str(<< "g", "p", "t", "-", "3", "5", "t", "u", "r", "b", "o" >>)

===========================================================================
